---- MODULE Spec2Model ----
(***************************************************************************)
(* Chunked HTTP range download client (client.rs, main.rs).               *)
(*                                                                         *)
(* The model follows one run of main: download_full_data plans inclusive   *)
(* byte ranges, download_chunk fetches each one with up to MAX_RETRIES     *)
(* attempts, every attempt being one send_request call (connect, write the *)
(* request, parse the response), and the accepted bodies are copied into   *)
(* the pre-sized buffer.  The server and the network are the environment:  *)
(* every outcome send_request can return is drawn nondeterministically.    *)
(*                                                                         *)
(* Scale: u64 is the interval 0..U64_MAX, bytes are 0..MaxByte and         *)
(* CHUNK_SIZE is 2 instead of 32 * 1024, so that every buffer content can  *)
(* be enumerated; MAX_RETRIES keeps its value.                             *)
(***************************************************************************)
EXTENDS Integers, Sequences, FiniteSets, TLC

\* Largest value of the model's u64 (2^64 - 1 in the program).
U64_MAX == 5
\* Largest byte value the server sends (255 in the program).
MaxByte == 1

\* client.rs:9, scaled down from 32 * 1024.
CHUNK_SIZE == 2
\* client.rs:10
MAX_RETRIES == 10
\* client.rs:14, "127.0.0.1:8080" as its colon-separated fields.
SERVER_ADDR == <<"127.0.0.1", "8080">>

U64 == 0..U64_MAX
Byte == 0..MaxByte

\* Status codes the environment answers with: accepted ones and others.
StatusCodes == {200, 206, 404}

----------------------------------------------------------------------------
\* u64 arithmetic

saturating_add(a, b) == IF a + b > U64_MAX THEN U64_MAX ELSE a + b

saturating_sub(a, b) == IF a < b THEN 0 ELSE a - b

\* `+` and `-` on u64: a debug build panics on overflow, a release build wraps.
Overflows(x) == x < 0 \/ x > U64_MAX

Wrap(x) == x % (U64_MAX + 1)

----------------------------------------------------------------------------
\* Result<T, DownloadError>.  An error is its variant and its message: the
\* text of the format string and the values formatted into it.  `dflt` is
\* the placeholder payload of an Err.

Msg(text, a, b) == [text |-> text, a |-> a, b |-> b]

NoMsg == Msg("", 0, 0)

Ok(v) == [tag |-> "Ok", val |-> v, err |-> "None", msg |-> NoMsg]

Err(k, m, dflt) == [tag |-> "Err", val |-> dflt, err |-> k, msg |-> m]

\* struct HttpResponse
HttpResponse(status_code, body) == [status_code |-> status_code, body |-> body]

NoHttpResponse == HttpResponse(0, <<>>)

\* What download_chunk looks at in a send_request result: Ok or Err, the
\* status code and the body length of an Ok, the variant of an Err.
Judged(r) ==
    [tag |-> r.tag, status_code |-> r.val.status_code,
     body_len |-> Len(r.val.body), err |-> r.err]

\* No send_request result has been matched for the current attempt.
NothingJudged == [tag |-> "None", status_code |-> 0, body_len |-> 0, err |-> "None"]

NoResult == [tag |-> "None", val |-> <<>>, err |-> "None", msg |-> NoMsg]

\* All byte sequences of length n.
BytesOfLen(n) == [1..n -> Byte]

\* Bodies a response can carry: every length up to one more than a full chunk.
Bodies == UNION {BytesOfLen(n) : n \in 0..(CHUNK_SIZE + 1)}

----------------------------------------------------------------------------
\* Expressions of download_full_data, download_chunk and send_request

\* Mutant of ChunkEnd: the last range is not clipped to total_size - 1.
ChunkEnd_NoClip(pos, size) == saturating_sub(saturating_add(pos, CHUNK_SIZE), 1)

\* download_full_data: chunk_end of the chunk starting at current_pos.
ChunkEnd(pos, size) ==
    LET e == saturating_sub(saturating_add(pos, CHUNK_SIZE), 1)
    IN  IF e >= size THEN saturating_sub(size, 1) ELSE e

\* download_chunk: expected_len, before the `+ 1` is reduced to the width.
ExpectedLenRaw(start, end) == saturating_sub(end, start) + 1

ExpectedLen(start, end) == Wrap(ExpectedLenRaw(start, end))

\* Mutant of RequestEnd: the inclusive end is sent as it is.
RequestEnd_Inclusive(end) == end

\* download_chunk: request_end, the exclusive upper bound sent to the server.
RequestEnd(end) == saturating_add(end, 1)

\* Mutant of IsAccepted: only 206 Partial Content is accepted.
IsAccepted_Only206(resp, len) ==
    /\ resp.status_code = 206
    /\ Len(resp.body) = len

\* download_chunk: the test that returns Ok(response.body).
IsAccepted(resp, len) ==
    /\ (resp.status_code = 206 \/ resp.status_code = 200)
    /\ Len(resp.body) = len

\* download_chunk: the test that prints the "truncated chunk" warning.
IsTruncated(resp, len) ==
    /\ (resp.status_code = 206 \/ resp.status_code = 200)
    /\ Len(resp.body) # len

\* Option<(u64, u64)>
Some(x) == <<x>>

None == <<>>

\* send_request: address.split(':').next()
Host(address) == address[1]

\* send_request: the Range header line for Some((start, end)).
RangeHeader(start, end) ==
    IF end > start
    THEN <<"Range", "bytes", start, end>>
    ELSE <<"Range", "bytes", start, start>>

\* send_request: request_str as its lines, the final blank line left out.
BuildRequest(address, range) ==
    << <<"GET", "/", "HTTP/1.1">>,
       <<"Host", Host(address)>>,
       <<"Connection", "close">> >>
    \o (IF range = None THEN <<>> ELSE <<RangeHeader(range[1][1], range[1][2])>>)

\* Mutant of CopyFromSlice: the chunk is copied to the front of the buffer.
CopyFromSlice_AtFront(buf, start_idx, data) ==
    [i \in 1..Len(buf) |-> IF i <= Len(data) THEN data[i] ELSE buf[i]]

\* full_data[start_idx..start_idx + chunk_data.len()].copy_from_slice(&chunk_data)
CopyFromSlice(buf, start_idx, data) ==
    [i \in 1..Len(buf) |->
        IF start_idx < i /\ i <= start_idx + Len(data)
        THEN data[i - start_idx]
        ELSE buf[i]]

\* Buffer indices (0-based) a copy of n bytes at start_idx touches.
CopyIndices(start_idx, n) == {i \in Nat : start_idx <= i /\ i < start_idx + n}

\* The errors parse_http_response returns, by return site.
ParseErrors ==
    { <<"Io", "read failed">>,
      <<"Parse", "Malformed status line">>,
      <<"Parse", "Invalid status code">>,
      <<"Parse", "Malformed header line">>,
      <<"Network", "Server connection closed prematurely">>,
      <<"Http", "Missing Content-Length header">> }

\* Everything parse_http_response can return to send_request.
ParseResults ==
    {Err(e[1], Msg(e[2], 0, 0), NoHttpResponse) : e \in ParseErrors}
    \cup {Ok(HttpResponse(sc, b)) : sc \in StatusCodes, b \in Bodies}

\* Mutant of EmptyDownload: a zeroed buffer of one byte is returned.
EmptyDownload_OneByte == Ok(<<0>>)

\* download_full_data: what the empty download returns.
EmptyDownload == Ok(<<>>)

\* Mutant of AdvanceCursor: the cursor stops on the last byte copied.
AdvanceCursor_Short(pos, n) == pos + n - 1

\* Mutant of AdvanceCursor: the cursor skips the byte after the chunk.
AdvanceCursor_Skip(pos, n) == pos + n + 1

\* download_full_data: current_pos += chunk_data.len()
AdvanceCursor_Stay(pos, n) == pos

AdvanceCursor(pos, n) == pos + n

\* Mutant of HasNextAttempt: the loop runs once more than MAX_RETRIES times.
HasNextAttempt_OneMore(n) == n <= MAX_RETRIES

\* download_chunk: `for attempt in 1..=MAX_RETRIES` has a next value.
HasNextAttempt(n) == n < MAX_RETRIES

\* thread::sleep(RETRY_DELAY) at the end of the loop body, reached by every
\* attempt that did not return: the number of sleeps taken after one more.
\* Mutant: the last attempt is not followed by a sleep.
AfterSleep_NotAfterLast(n, att) == IF att < MAX_RETRIES THEN n + 1 ELSE n

AfterSleep(n, att) == n + 1

\* Mutant of ExhaustedError: the failure is reported with the Io variant.
ExhaustedError_Io(start, end) ==
    Err("Io", Msg("Failed to download chunk after MAX_RETRIES retries", start, end), <<>>)

\* download_chunk: the error returned when the loop is used up.
ExhaustedError(start, end) ==
    Err("Network", Msg("Failed to download chunk after MAX_RETRIES retries", start, end), <<>>)

\* Mutant of DropStream: the stream stays open after send_request returns.
DropStream_Leak(n) == n

\* send_request returns: the TcpStream it owns is dropped.
DropStream(n) == n - 1

----------------------------------------------------------------------------
\* Text.  A string is a sequence of one-character strings.

UpperChars == <<"A", "B", "C", "D", "E", "F", "G", "H", "I", "J", "K", "L", "M",
                "N", "O", "P", "Q", "R", "S", "T", "U", "V", "W", "X", "Y", "Z">>

LowerChars == <<"a", "b", "c", "d", "e", "f", "g", "h", "i", "j", "k", "l", "m",
                "n", "o", "p", "q", "r", "s", "t", "u", "v", "w", "x", "y", "z">>

HexDigits == <<"0", "1", "2", "3", "4", "5", "6", "7", "8", "9",
               "a", "b", "c", "d", "e", "f">>

\* char::to_lowercase and char::to_uppercase on the ASCII letters.
ToLowerChar(c) ==
    IF \E i \in DOMAIN UpperChars : UpperChars[i] = c
    THEN LowerChars[CHOOSE i \in DOMAIN UpperChars : UpperChars[i] = c]
    ELSE c

ToUpperChar(c) ==
    IF \E i \in DOMAIN LowerChars : LowerChars[i] = c
    THEN UpperChars[CHOOSE i \in DOMAIN LowerChars : LowerChars[i] = c]
    ELSE c

\* str::to_lowercase, and a variant that keeps the text as it is.
to_lowercase_Keep(s) == s

to_lowercase(s) == [i \in 1..Len(s) |-> ToLowerChar(s[i])]

to_uppercase(s) == [i \in 1..Len(s) |-> ToUpperChar(s[i])]

\* calculate_sha256: the digest of the data as a lowercase hexadecimal text
\* of fixed length.  SHA-256 itself is the sha2 crate's; here the digest is
\* a stand-in that is a function of the data, has one length for every
\* buffer, uses hexadecimal digits with letters among them, and has no
\* collision on buffers of at most DigestLen bytes below 6.
DigestLen == U64_MAX + 1

calculate_sha256(data) ==
    [i \in 1..DigestLen |->
        IF i <= Len(data) THEN HexDigits[11 + (data[i] % 6)] ELSE "0"]

\* The values main may find in args[2]: nothing, or the digest of the zeroed
\* buffer or of the buffer of ones of the given size, in lowercase, in
\* uppercase, or with only the first letter in uppercase.
Capitalized(s) == [i \in 1..Len(s) |-> IF i = 1 THEN ToUpperChar(s[i]) ELSE s[i]]

ExpectedArgs(size) ==
    {None} \cup
    UNION { {Some(h), Some(to_uppercase(h)), Some(Capitalized(h))} :
            h \in {calculate_sha256([i \in 1..size |-> b]) : b \in {0, MaxByte}} }

\* The `?` operator on an Err whose error already is a DownloadError: the
\* function returns the same error; and a variant that returns another one.
QuestionMark_Rewrap(r) == Err("Logic", r.msg, r.val)

QuestionMark(r) == r

\* DownloadError::HashMismatch { expected, actual }, and a variant with the
\* two fields exchanged.
HashMismatch_Swapped(expected, actual) ==
    [tag |-> "Err", val |-> <<>>, err |-> "HashMismatch", msg |-> NoMsg,
     expected |-> actual, actual |-> expected]

HashMismatch(expected, actual) ==
    [tag |-> "Err", val |-> <<>>, err |-> "HashMismatch", msg |-> NoMsg,
     expected |-> expected, actual |-> actual]

----------------------------------------------------------------------------
\* parse_http_response: the operations on text it is made of.

MaxHeaders == 2

MaxBody == 2

U16_MAX == 65535

\* usize::MAX, as far as the integers of the model go.
USIZE_MAX == 2147483647

\* char::is_whitespace on the characters of the model.
Whitespace == {" ", "\t", "\r", "\n"}

\* str::trim: the text without its leading and trailing whitespace.
trim(s) ==
    LET kept == {i \in 1..Len(s) : s[i] \notin Whitespace}
    IN  IF kept = {} THEN <<>>
        ELSE SubSeq(s, CHOOSE i \in kept : \A j \in kept : i <= j,
                       CHOOSE i \in kept : \A j \in kept : j <= i)

\* The index of the first occurrence of the text pat in s, 0 when there is
\* none.
Find(s, pat) ==
    LET hits == {i \in 1..(Len(s) - Len(pat) + 1) :
                    SubSeq(s, i, i + Len(pat) - 1) = pat}
    IN  IF hits = {} THEN 0 ELSE CHOOSE i \in hits : \A j \in hits : i <= j

RECURSIVE splitn(_, _, _)
\* str::splitn(n, pat) collected: at most n pieces, the last one holding the
\* rest of the text.
splitn(s, n, pat) ==
    IF n <= 1 \/ Find(s, pat) = 0 THEN <<s>>
    ELSE <<SubSeq(s, 1, Find(s, pat) - 1)>>
            \o splitn(SubSeq(s, Find(s, pat) + Len(pat), Len(s)), n - 1, pat)

\* The index of the last occurrence of the text pat in s, 0 when there is
\* none.
FindLast(s, pat) ==
    LET hits == {i \in 1..(Len(s) - Len(pat) + 1) :
                    SubSeq(s, i, i + Len(pat) - 1) = pat}
    IN  IF hits = {} THEN 0 ELSE CHOOSE i \in hits : \A j \in hits : j <= i

\* str::split_once(pat): the text before and after the first occurrence of
\* pat; and a variant that splits at the last occurrence.
split_once_Last(s, pat) ==
    IF FindLast(s, pat) = 0 THEN None
    ELSE Some(<<SubSeq(s, 1, FindLast(s, pat) - 1),
                SubSeq(s, FindLast(s, pat) + Len(pat), Len(s))>>)

split_once(s, pat) ==
    IF Find(s, pat) = 0 THEN None
    ELSE Some(<<SubSeq(s, 1, Find(s, pat) - 1),
                SubSeq(s, Find(s, pat) + Len(pat), Len(s))>>)

IsDigit(c) == \E d \in 1..10 : HexDigits[d] = c

DigitValue(c) == (CHOOSE d \in 1..10 : HexDigits[d] = c) - 1

RECURSIVE DecimalValue(_)
DecimalValue(s) ==
    IF s = <<>> THEN 0
    ELSE 10 * DecimalValue(SubSeq(s, 1, Len(s) - 1)) + DigitValue(s[Len(s)])

\* str::parse for an unsigned integer type of the given maximum: an optional
\* "+", then at least one decimal digit and nothing else, the value within
\* the type; and a variant that takes any text for a number.
parse_unsigned_Lenient(s, max) == Some(0)

parse_unsigned(s, max) ==
    LET digits == IF s # <<>> /\ s[1] = "+" THEN Tail(s) ELSE s
    IN  IF digits = <<>> \/ \E i \in 1..Len(digits) : ~IsDigit(digits[i])
        THEN None
        ELSE IF DecimalValue(digits) > max THEN None
        ELSE Some(DecimalValue(digits))

\* BufRead::read_line from position pos of a stream: the bytes up to and
\* including the next "\n", or up to the end of a stream that ends in EOF
\* (nothing at all when it is at its end); Err when the stream fails before
\* a "\n" arrives.
read_line(st, pos) ==
    LET nl == {i \in (pos + 1)..Len(st.data) : st.data[i] = "\n"}
        to == IF nl = {} THEN Len(st.data)
              ELSE CHOOSE i \in nl : \A j \in nl : i <= j
    IN  IF nl = {} /\ st.end # "eof"
        THEN [tag |-> "Err", line |-> <<>>, pos |-> pos]
        ELSE [tag |-> "Ok", line |-> SubSeq(st.data, pos + 1, to), pos |-> to]

\* Read::read_exact of len bytes from position pos: the bytes when the
\* stream has them, UnexpectedEof when it ends before, another error when it
\* fails before; a variant that is content with the bytes there are, and
\* one that reads from the start of the stream.
read_exact_Partial(st, pos, len) ==
    [tag |-> "Ok", bytes |-> SubSeq(st.data, pos + 1,
                                    IF Len(st.data) - pos >= len THEN pos + len
                                    ELSE Len(st.data))]

read_exact_Rewound(st, pos, len) ==
    IF Len(st.data) - pos >= len
    THEN [tag |-> "Ok", bytes |-> SubSeq(st.data, 1, len)]
    ELSE IF st.end = "eof"
    THEN [tag |-> "UnexpectedEof", bytes |-> <<>>]
    ELSE [tag |-> "Err", bytes |-> <<>>]

read_exact(st, pos, len) ==
    IF Len(st.data) - pos >= len
    THEN [tag |-> "Ok", bytes |-> SubSeq(st.data, pos + 1, pos + len)]
    ELSE IF st.end = "eof"
    THEN [tag |-> "UnexpectedEof", bytes |-> <<>>]
    ELSE [tag |-> "Err", bytes |-> <<>>]

CONTENT_LENGTH ==
    <<"c", "o", "n", "t", "e", "n", "t", "-", "l", "e", "n", "g", "t", "h">>

\* headers.iter().find(..).and_then(..): the value of the first header named
\* content-length, parsed; None when there is no such header and when its
\* value does not parse.
ContentLengthOf_Last(hs) ==
    LET found == {i \in 1..Len(hs) : hs[i][1] = CONTENT_LENGTH}
    IN  IF found = {} THEN None
        ELSE parse_unsigned(hs[CHOOSE i \in found : \A j \in found : j <= i][2],
                            USIZE_MAX)

ContentLengthOf(hs) ==
    LET found == {i \in 1..Len(hs) : hs[i][1] = CONTENT_LENGTH}
    IN  IF found = {} THEN None
        ELSE parse_unsigned(hs[CHOOSE i \in found : \A j \in found : i <= j][2],
                            USIZE_MAX)

\* The status codes that may come without a Content-Length header, and a
\* variant without the informational ones.
BodylessStatus_No1xx(sc) == sc = 204 \/ sc = 304

BodylessStatus(sc) == sc = 204 \/ sc = 304 \/ (100 <= sc /\ sc < 200)

\* What a server may put on the stream: a status line, header lines, a blank
\* line and body bytes, each line ended by eol; the stream may stop after any
\* of these parts, and it stops with EOF or with a read error.
SP == <<" ">>

CRLF == <<"\r", "\n">>

LF == <<"\n">>

HTTP11 == <<"H", "T", "T", "P", "/", "1", ".", "1">>

StatusLine(code, reason) ==
    HTTP11 \o SP \o code \o (IF reason = <<>> THEN <<>> ELSE SP \o reason)

StatusLines ==
    { StatusLine(<<"2", "0", "0">>, <<"O", "K">>),
      StatusLine(<<"2", "0", "4">>, <<>>),
      StatusLine(<<"3", "0", "4">>, <<"N", "o", "t", " ", "M", "o", "d">>),
      StatusLine(<<"1", "0", "0">>, <<"C", "o", "n", "t">>),
      StatusLine(<<"1", "9", "9">>, <<"X">>),
      StatusLine(<<"4", "0", "4">>, <<"N", "o", "t", " ", "F", "o", "u", "n", "d">>),
      StatusLine(<<"2", "x", "0">>, <<"O", "K">>),
      StatusLine(<<"7", "0", "0", "0", "0">>, <<"O", "K">>),
      HTTP11,
      <<>> }

Header(name, value) == name \o <<":", " ">> \o value

\* "Content-Length" as servers usually write it.
ContentLengthTitle ==
    [i \in 1..Len(CONTENT_LENGTH) |->
        IF i \in {1, 9} THEN ToUpperChar(CONTENT_LENGTH[i]) ELSE CONTENT_LENGTH[i]]

HeaderLines ==
    { Header(ContentLengthTitle, <<"1">>),
      Header(to_uppercase(CONTENT_LENGTH), <<" ", "2", " ">>),
      Header(CONTENT_LENGTH, <<"x">>),
      Header(<<"X">>, <<"y">>),
      Header(<<"X">>, <<"y", ":", " ", "z">>),
      <<"X", ":", "y">> }

HeaderLists == UNION {[1..n -> HeaderLines] : n \in 0..MaxHeaders}

\* Body bytes, all different: "p", "q", ...
BodyOfLen(n) == [i \in 1..n |-> LowerChars[15 + i]]

Wires ==
    { w \in [status : StatusLines, eol : {CRLF, LF}, header_lines : HeaderLists,
             body : {BodyOfLen(n) : n \in 0..MaxBody},
             cut : {"nothing", "status", "headers", "all"},
             end : {"eof", "error"}] :
        /\ w.cut # "all" => w.body = <<>>
        /\ w.cut \in {"nothing", "status"} => (w.header_lines = <<>> /\ w.eol = CRLF)
        /\ w.cut = "nothing" => w.status = <<>> }

NoWire ==
    [status |-> <<>>, eol |-> CRLF, header_lines |-> <<>>, body |-> <<>>,
     cut |-> "nothing", end |-> "eof"]

RECURSIVE Lines(_, _)
\* The lines, each followed by eol.
Lines(ls, eol) ==
    IF ls = <<>> THEN <<>> ELSE Head(ls) \o eol \o Lines(Tail(ls), eol)

\* The bytes of the stream a wire makes.
OnWire(w) ==
    CASE w.cut = "nothing" -> <<>>
      [] w.cut = "status"  -> w.status
      [] w.cut = "headers" -> w.status \o w.eol \o Lines(w.header_lines, w.eol)
      [] OTHER             -> w.status \o w.eol \o Lines(w.header_lines, w.eol)
                                 \o w.eol \o w.body

StreamOf(w) == [data |-> OnWire(w), end |-> w.end]

----------------------------------------------------------------------------
VARIABLES
    pc,            \* position of the single thread of control
    total_size,    \* main: args[1] parsed
    full_data,     \* download_full_data: the buffer
    current_pos,   \* download_full_data: the cursor
    chunk_start,   \* download_full_data: inclusive range of this iteration
    chunk_end,
    expected_len,  \* download_chunk: expected_len
    attempt,       \* download_chunk: the loop variable, 0 outside the loop
    open_conns,    \* TcpStream values alive
    request,       \* lines written on the stream of the current attempt
    chunk_result,  \* what download_chunk returned
    result,        \* what download_full_data returned
    exit_status,   \* what main returned
    \* history of the run, read by the properties only
    calls,         \* send_request calls made for this chunk
    last_response, \* what the match saw in the send_request result it judged last
    wrong_len,     \* 200/206 responses to this chunk whose body had another length
    accepted,      \* the bodies of the accepted responses, one per chunk
    conns_opened,  \* connections opened by the current attempt
    conn_requests, \* requests written on the connection of the current attempt
    warnings,      \* "truncated chunk" warnings printed for this chunk
    sleeps,        \* RETRY_DELAY sleeps taken for this chunk
    writes,        \* per buffer index, the number of chunk copies that wrote it
    plan,          \* the (chunk_start, chunk_end) pairs computed so far
    requested,     \* the (start, end) pairs of the Range headers sent so far
    \* main
    expected_arg,  \* args.get(2) as main read it: None or Some(text)
    \* parse_http_response, called on a stream of its own
    ppc,           \* position in parse_http_response
    wire,          \* history: the pieces the server put on the stream
    stream,        \* the bytes of the stream and how it ends
    consumed,      \* number of bytes the reader has consumed
    status_code,   \* local of parse_http_response
    headers,       \* local of parse_http_response
    parsed         \* what parse_http_response returned

vars == <<pc, total_size, full_data, current_pos, chunk_start, chunk_end,
          expected_len, attempt, open_conns, request, chunk_result, result,
          exit_status, calls, last_response, wrong_len, accepted, conns_opened,
          conn_requests, warnings, sleeps, writes, plan, requested,
          expected_arg, ppc, wire, stream, consumed, status_code, headers,
          parsed>>

parser == <<ppc, wire, stream, consumed, status_code, headers, parsed>>

locals == <<chunk_start, chunk_end, expected_len, attempt>>

history == <<calls, last_response, wrong_len, accepted, conns_opened,
             conn_requests, warnings, sleeps>>

\* Nothing has been downloaded.
NothingDownloaded ==
    /\ full_data = <<>>
    /\ current_pos = 0
    /\ chunk_start = 0
    /\ chunk_end = 0
    /\ expected_len = 0
    /\ attempt = 0
    /\ open_conns = 0
    /\ request = <<>>
    /\ last_response = NothingJudged
    /\ chunk_result = NoResult
    /\ result = NoResult
    /\ exit_status = NoResult
    /\ calls = 0
    /\ wrong_len = 0
    /\ accepted = <<>>
    /\ conns_opened = 0
    /\ conn_requests = 0
    /\ warnings = 0
    /\ sleeps = 0
    /\ writes = <<>>
    /\ plan = <<>>
    /\ requested = {}
    /\ expected_arg = None

\* parse_http_response is not running.
ParserIdle ==
    /\ ppc = "idle"
    /\ wire = NoWire
    /\ stream = StreamOf(NoWire)
    /\ consumed = 0
    /\ status_code = 0
    /\ headers = <<>>
    /\ parsed = NoResult

\* main has parsed its arguments and is about to call download_full_data.
Init ==
    /\ pc = "start"
    /\ total_size \in U64
    /\ NothingDownloaded
    /\ ParserIdle

----------------------------------------------------------------------------
\* download_full_data, entry: the empty download returns at once, any other
\* size allocates the zeroed buffer and starts the loop.
Enter ==
    /\ pc = "start"
    /\ IF total_size = 0
       THEN /\ result' = EmptyDownload
            /\ pc' = "returned"
            /\ UNCHANGED <<full_data, writes>>
       ELSE /\ full_data' = [i \in 1..total_size |-> 0]
            /\ writes' = [i \in 0..(total_size - 1) |-> 0]
            /\ pc' = "loop"
            /\ UNCHANGED result
    /\ current_pos' = 0
    /\ UNCHANGED <<parser, expected_arg, total_size, locals, open_conns, request, chunk_result,
                   exit_status, history, plan, requested>>

\* download_full_data, loop head with current_pos < total_size: the range of
\* the next chunk, then the entry of download_chunk up to its retry loop.
PlanChunk ==
    /\ pc = "loop"
    /\ current_pos < total_size
    /\ LET start == current_pos
           end   == ChunkEnd(current_pos, total_size)
       IN  /\ plan' = Append(plan, <<start, end>>)
           /\ \/ /\ chunk_start' = start
                 /\ chunk_end' = end
                 /\ expected_len' = ExpectedLen(start, end)
                 /\ IF ExpectedLen(start, end) = 0
                    THEN /\ chunk_result' = Ok(<<>>)
                         /\ attempt' = 0
                         /\ pc' = "copy"
                    ELSE /\ attempt' = 1
                         /\ pc' = "connect"
                         /\ UNCHANGED chunk_result
              \/ \* debug_assert!(chunk_start <= chunk_end), overflow of `+ 1`
                 /\ start > end \/ Overflows(ExpectedLenRaw(start, end))
                 /\ pc' = "panicked"
                 /\ UNCHANGED <<locals, chunk_result>>
    /\ calls' = 0
    /\ wrong_len' = 0
    /\ warnings' = 0
    /\ sleeps' = 0
    /\ UNCHANGED <<parser, expected_arg, total_size, full_data, current_pos, open_conns, request,
                   result, exit_status, last_response, accepted, conns_opened,
                   conn_requests, writes, requested>>

\* download_full_data, loop exit: Ok(full_data).
ReturnBuffer ==
    /\ pc = "loop"
    /\ ~(current_pos < total_size)
    /\ result' = Ok(full_data)
    /\ pc' = "returned"
    /\ UNCHANGED <<parser, expected_arg, total_size, full_data, current_pos, locals, open_conns,
                   request, chunk_result, exit_status, history, writes, plan,
                   requested>>

\* download_chunk, the match on the value r that send_request returned: a
\* 200/206 body of the expected length is returned to the caller, anything
\* else is reported and leads to the retry sleep.
Match(r) ==
    /\ last_response' = Judged(r)
    /\ wrong_len' =
          IF /\ r.tag = "Ok"
             /\ r.val.status_code \in {200, 206}
             /\ Len(r.val.body) # chunk_end - chunk_start + 1
          THEN wrong_len + 1
          ELSE wrong_len
    /\ IF r.tag = "Ok" /\ IsAccepted(r.val, expected_len)
       THEN /\ chunk_result' = Ok(r.val.body)
            /\ accepted' = Append(accepted, r.val.body)
            /\ pc' = "copy"
            /\ UNCHANGED warnings
       ELSE /\ warnings' = IF r.tag = "Ok" /\ IsTruncated(r.val, expected_len)
                           THEN warnings + 1
                           ELSE warnings
            /\ pc' = "sleep"
            /\ UNCHANGED <<chunk_result, accepted>>

\* send_request, first part: one attempt of the loop begins, the address is
\* parsed and a new TcpStream is connected; a failed connect returns Network
\* to the match.
Connect ==
    /\ pc = "connect"
    /\ calls' = calls + 1
    /\ conn_requests' = 0
    /\ request' = <<>>
    /\ \/ /\ open_conns' = open_conns + 1
          /\ conns_opened' = 1
          /\ pc' = "write"
          /\ UNCHANGED <<last_response, wrong_len, chunk_result, accepted, warnings>>
       \/ /\ conns_opened' = 0
          /\ Match(Err("Network", Msg("Failed to connect", 0, 0), NoHttpResponse))
          /\ UNCHANGED open_conns
    /\ UNCHANGED <<parser, expected_arg, total_size, full_data, current_pos, locals, result,
                   exit_status, sleeps, writes, plan, requested>>

\* send_request, second part: the timeouts are set and the request is written
\* and flushed; any failure returns Io to the match and drops the stream.
WriteRequest ==
    /\ pc = "write"
    /\ \/ /\ request' = BuildRequest(SERVER_ADDR,
                                     Some(<<chunk_start, RequestEnd(chunk_end)>>))
          /\ conn_requests' = conn_requests + 1
          /\ requested' = requested \cup
                 {<<l[3], l[4]>> : l \in {request'[i] : i \in
                     {j \in 1..Len(request') : request'[j][1] = "Range"}}}
          /\ pc' = "read"
          /\ UNCHANGED <<open_conns, last_response, wrong_len, chunk_result,
                         accepted, warnings>>
       \/ /\ open_conns' = DropStream(open_conns)
          /\ Match(Err("Io", Msg("write failed", 0, 0), NoHttpResponse))
          /\ UNCHANGED <<request, conn_requests, requested>>
    /\ UNCHANGED <<parser, expected_arg, total_size, full_data, current_pos, locals, result,
                   exit_status, calls, conns_opened, sleeps, writes, plan>>

\* send_request, last part: parse_http_response consumes the stream, the
\* reader and its stream are dropped and the result is returned to the match.
ReadResponse ==
    /\ pc = "read"
    /\ \E r \in ParseResults : Match(r)
    /\ open_conns' = DropStream(open_conns)
    /\ UNCHANGED <<parser, expected_arg, total_size, full_data, current_pos, locals, request, result,
                   exit_status, calls, conns_opened, conn_requests, sleeps,
                   writes, plan, requested>>

\* download_chunk, after a failed attempt: the RETRY_DELAY sleep, then either
\* the next attempt or, the range 1..=MAX_RETRIES being used up, Err(Network).
Sleep ==
    /\ pc = "sleep"
    /\ sleeps' = AfterSleep(sleeps, attempt)
    /\ IF HasNextAttempt(attempt)
       THEN /\ attempt' = attempt + 1
            /\ pc' = "connect"
            /\ UNCHANGED chunk_result
       ELSE /\ chunk_result' = ExhaustedError(chunk_start, chunk_end)
            /\ pc' = "copy"
            /\ UNCHANGED attempt
    /\ last_response' = NothingJudged
    /\ UNCHANGED <<parser, expected_arg, total_size, full_data, current_pos, chunk_start, chunk_end,
                   expected_len, open_conns, request, result, exit_status,
                   calls, wrong_len, accepted, conns_opened, conn_requests,
                   warnings, writes, plan, requested>>

\* download_full_data, the rest of the loop body: `?` on what download_chunk
\* returned, the copy into the buffer, the cursor, the progress line.
CopyChunk ==
    /\ pc = "copy"
    /\ IF chunk_result.tag = "Err"
       THEN /\ result' = QuestionMark(chunk_result)
            /\ pc' = "returned"
            /\ UNCHANGED <<full_data, current_pos, writes>>
       ELSE LET chunk_data == chunk_result.val
                start_idx  == chunk_start
                end_idx    == start_idx + Len(chunk_data)
                asserted   == /\ Len(chunk_data) = chunk_end - chunk_start + 1
                              /\ end_idx <= Len(full_data)
            IN  \/ /\ end_idx <= Len(full_data)
                   /\ full_data' = CopyFromSlice(full_data, start_idx, chunk_data)
                   /\ writes' = [i \in DOMAIN writes |->
                                   IF i \in CopyIndices(start_idx, Len(chunk_data))
                                   THEN writes[i] + 1
                                   ELSE writes[i]]
                   /\ current_pos' = Wrap(AdvanceCursor(current_pos, Len(chunk_data)))
                   /\ \/ /\ pc' = "loop"
                         /\ UNCHANGED result
                      \/ \* io::stdout().flush()? fails
                         /\ result' = Err("Io", Msg("flush failed", 0, 0), <<>>)
                         /\ pc' = "returned"
                \/ \* slice out of range; a failed debug_assert!; overflow
                   /\ \/ end_idx > Len(full_data)
                      \/ ~asserted
                      \/ Overflows(AdvanceCursor(current_pos, Len(chunk_data)))
                   /\ pc' = "panicked"
                   /\ UNCHANGED <<full_data, current_pos, writes, result>>
    /\ chunk_start' = 0
    /\ chunk_end' = 0
    /\ expected_len' = 0
    /\ attempt' = 0
    /\ chunk_result' = NoResult
    /\ last_response' = NothingJudged
    /\ UNCHANGED <<parser, expected_arg, total_size, open_conns, request, exit_status, calls,
                   wrong_len, accepted, conns_opened, conn_requests, warnings,
                   sleeps, plan, requested>>

\* main, after download_full_data: `?` on its result, then the size check.
\* No chunk is being fetched any more: the counts kept for the chunk under
\* way are dropped.
CheckSize ==
    /\ pc = "returned"
    /\ IF result.tag = "Err"
       THEN /\ exit_status' = QuestionMark(result)
            /\ pc' = "exit"
       ELSE IF Len(result.val) # total_size
       THEN /\ exit_status' =
                  Err("Logic", Msg("Final downloaded data size does not match expected size",
                                   Len(result.val), total_size), <<>>)
            /\ pc' = "exit"
       ELSE /\ pc' = "hash"
            /\ UNCHANGED exit_status
    /\ calls' = 0
    /\ wrong_len' = 0
    /\ conns_opened' = 0
    /\ conn_requests' = 0
    /\ warnings' = 0
    /\ sleeps' = 0
    /\ UNCHANGED <<parser, expected_arg, total_size, full_data, current_pos, locals, open_conns,
                   request, chunk_result, result, last_response, accepted, writes,
                   plan, requested>>

\* main, hash verification: the digest of the data, the expected digest of
\* args[2] in lowercase when there is one, their comparison.
VerifyHash ==
    /\ pc = "hash"
    /\ \E arg \in ExpectedArgs(total_size) :
          LET downloaded_data == result.val
              actual_hash     == calculate_sha256(downloaded_data)
              expected_hash   == IF arg = None THEN None
                                 ELSE Some(to_lowercase(arg[1]))
          IN  /\ expected_arg' = arg
              /\ exit_status' =
                    IF expected_hash # None /\ actual_hash # expected_hash[1]
                    THEN HashMismatch(expected_hash[1], actual_hash)
                    ELSE Ok(<<>>)
    /\ pc' = "exit"
    /\ UNCHANGED <<parser, total_size, full_data, current_pos, locals, open_conns,
                   request, chunk_result, result, history, writes, plan,
                   requested>>

Next ==
    \/ Enter
    \/ PlanChunk
    \/ ReturnBuffer
    \/ Connect
    \/ WriteRequest
    \/ ReadResponse
    \/ Sleep
    \/ CopyChunk
    \/ CheckSize
    \/ VerifyHash

Spec == Init /\ [][Next]_vars

----------------------------------------------------------------------------
\* parse_http_response on a stream of its own.

download == <<pc, total_size, full_data, current_pos, locals, open_conns,
              request, chunk_result, result, exit_status, history, writes,
              plan, requested, expected_arg>>

ParseError(kind, text) == Err(kind, Msg(text, 0, 0), NoHttpResponse)

\* A reader has been made on a stream the server wrote, nothing is read yet.
InitParse ==
    /\ pc = "parse"
    /\ total_size = 0
    /\ NothingDownloaded
    /\ wire \in Wires
    /\ stream = StreamOf(wire)
    /\ ppc = "status"
    /\ consumed = 0
    /\ status_code = 0
    /\ headers = <<>>
    /\ parsed = NoResult

\* The status line: read_line, trim, splitn(3, ' '), the code as u16.
ReadStatusLine ==
    /\ ppc = "status"
    /\ LET rl    == read_line(stream, consumed)
           parts == splitn(trim(rl.line), 3, SP)
           code  == parse_unsigned(parts[2], U16_MAX)
       IN  /\ consumed' = rl.pos
           /\ IF rl.tag = "Err"
              THEN /\ parsed' = ParseError("Io", "read failed")
                   /\ ppc' = "done"
                   /\ UNCHANGED status_code
              ELSE IF Len(parts) < 2
              THEN /\ parsed' = ParseError("Parse", "Malformed status line")
                   /\ ppc' = "done"
                   /\ UNCHANGED status_code
              ELSE IF code = None
              THEN /\ parsed' = ParseError("Parse", "Invalid status code")
                   /\ ppc' = "done"
                   /\ UNCHANGED status_code
              ELSE /\ status_code' = code[1]
                   /\ ppc' = "headers"
                   /\ UNCHANGED parsed
    /\ UNCHANGED <<download, wire, stream, headers>>

\* One turn of the header loop: read_line, trim, the end of the headers at an
\* empty line, split_once(": ") otherwise.
ReadHeaderLine ==
    /\ ppc = "headers"
    /\ LET rl           == read_line(stream, consumed)
           trimmed_line == trim(rl.line)
           name_value   == split_once(trimmed_line, <<":", " ">>)
       IN  /\ consumed' = rl.pos
           /\ IF rl.tag = "Err"
              THEN /\ parsed' = ParseError("Io", "read failed")
                   /\ ppc' = "done"
                   /\ UNCHANGED headers
              ELSE IF trimmed_line = <<>>
              THEN /\ ppc' = "body"
                   /\ UNCHANGED <<headers, parsed>>
              ELSE IF name_value # None
              THEN /\ headers' = Append(headers, <<to_lowercase(name_value[1][1]),
                                                   trim(name_value[1][2])>>)
                   /\ UNCHANGED <<ppc, parsed>>
              ELSE /\ parsed' = ParseError("Parse", "Malformed header line")
                   /\ ppc' = "done"
                   /\ UNCHANGED headers
    /\ UNCHANGED <<download, wire, stream, status_code>>

\* The body: read_exact of Content-Length bytes when the header gives a
\* length, no body for the statuses that need none, Http otherwise.
ReadBody ==
    /\ ppc = "body"
    /\ LET content_length == ContentLengthOf(headers)
           re == read_exact(stream, consumed,
                            IF content_length = None THEN 0 ELSE content_length[1])
       IN  IF content_length # None
           THEN /\ parsed' =
                     IF re.tag = "Ok" THEN Ok(HttpResponse(status_code, re.bytes))
                     ELSE IF re.tag = "UnexpectedEof"
                     THEN ParseError("Network", "Server connection closed prematurely")
                     ELSE ParseError("Io", "read failed")
                /\ consumed' = IF re.tag = "Ok" THEN consumed + content_length[1]
                               ELSE Len(stream.data)
           ELSE /\ parsed' =
                     IF BodylessStatus(status_code)
                     THEN Ok(HttpResponse(status_code, <<>>))
                     ELSE ParseError("Http", "Missing Content-Length header")
                /\ UNCHANGED consumed
    /\ ppc' = "done"
    /\ UNCHANGED <<download, wire, stream, status_code, headers>>

NextParse ==
    \/ ReadStatusLine
    \/ ReadHeaderLine
    \/ ReadBody

SpecParse == InitParse /\ [][NextParse]_vars

----------------------------------------------------------------------------
\* Properties

RECURSIVE Concat(_)
\* The concatenation of a sequence of byte sequences.
Concat(ss) == IF ss = <<>> THEN <<>> ELSE Head(ss) \o Concat(Tail(ss))

RECURSIVE SumLens(_)
\* The sum of the lengths of a sequence of inclusive ranges.
SumLens(rs) ==
    IF rs = <<>> THEN 0 ELSE (Head(rs)[2] - Head(rs)[1] + 1) + SumLens(Tail(rs))

\* download_chunk has returned to download_full_data, which has not yet
\* looked at the result.
ChunkReturned == pc = "copy"

\* download_full_data has returned Ok to main.
DownloadOk == pc \in {"returned", "hash", "exit"} /\ result.tag = "Ok"

\* C1: download_chunk returns either Ok with a body of exactly
\* end - start + 1 bytes or the Network error built after the retry loop is
\* used up; no error of an attempt (Args, Network, Parse, Http, Io from
\* send_request) is ever what it returns, and it returns nothing while
\* attempts are still being made.
C1_ChunkResultOkOrNetwork ==
    /\ ChunkReturned =>
          \/ /\ chunk_result.tag = "Ok"
             /\ Len(chunk_result.val) = chunk_end - chunk_start + 1
          \/ /\ chunk_result.tag = "Err"
             /\ chunk_result.err = "Network"
             /\ chunk_result.msg =
                  Msg("Failed to download chunk after MAX_RETRIES retries",
                      chunk_start, chunk_end)
    /\ ~ChunkReturned => chunk_result = NoResult

\* A fetch has failed although some of its attempts failed for another
\* reason than a truncated body.
C1_Witness ==
    /\ ChunkReturned
    /\ chunk_result.tag = "Err"
    /\ warnings < sleeps
    /\ chunk_start > 0

\* C2: a fetch whose first k attempts (k < MAX_RETRIES) answered 200/206 with
\* a body of the wrong length and whose attempt k + 1 was accepted has made
\* exactly k + 1 attempts and printed exactly k warnings; a fetch that fails
\* has made exactly MAX_RETRIES attempts and fails with Network; no fetch
\* ever makes more than MAX_RETRIES attempts.
C2_RetryCounts ==
    /\ calls <= MAX_RETRIES
    /\ attempt <= MAX_RETRIES
    /\ \A k \in 0..(MAX_RETRIES - 1) :
          (ChunkReturned /\ chunk_result.tag = "Ok" /\ sleeps = k /\ wrong_len = k)
             => (calls = k + 1 /\ attempt = k + 1 /\ warnings = k)
    /\ (ChunkReturned /\ chunk_result.tag = "Err")
          => (calls = MAX_RETRIES /\ attempt = MAX_RETRIES
              /\ chunk_result.err = "Network")

\* A fetch accepted on its last permitted attempt after nine truncated bodies.
C2_Witness ==
    /\ ChunkReturned
    /\ chunk_result.tag = "Ok"
    /\ wrong_len = MAX_RETRIES - 1
    /\ calls = MAX_RETRIES
    /\ warnings = MAX_RETRIES - 1

\* C3: the ranges computed by the download loop are ascending, contiguous and
\* non-overlapping: the first starts at 0, each next one starts at the
\* previous end + 1, every range has start <= end < total_size and at most
\* CHUNK_SIZE bytes, exactly CHUNK_SIZE for all but the last one, and
\* when a download of total_size > 0 bytes succeeds the lengths sum to
\* total_size and the last end is total_size - 1.
C3_PlanTilesTotal ==
    /\ \A i \in 1..Len(plan) :
          /\ plan[i][1] <= plan[i][2]
          /\ plan[i][2] < total_size
          /\ plan[i][2] - plan[i][1] + 1 <= CHUNK_SIZE
          /\ i = 1 => plan[i][1] = 0
          /\ i > 1 => plan[i][1] = plan[i - 1][2] + 1
          /\ i < Len(plan) => plan[i][2] - plan[i][1] + 1 = CHUNK_SIZE
    /\ (DownloadOk /\ total_size > 0) =>
          /\ Len(plan) > 0
          /\ plan[Len(plan)][2] = total_size - 1
          /\ SumLens(plan) = total_size

\* A successful download of three ranges whose last one is clipped.
C3_Witness ==
    /\ DownloadOk
    /\ Len(plan) >= 3
    /\ plan[Len(plan)][2] - plan[Len(plan)][1] + 1 < CHUNK_SIZE

\* C4: when download_full_data returns Ok the buffer has exactly total_size
\* bytes, the bytes at the indices of every planned range are the body of
\* the response accepted for that range, and the buffer is the concatenation
\* of the accepted bodies in range order.
C4_BufferIsAcceptedBodies ==
    DownloadOk =>
       /\ Len(result.val) = total_size
       /\ Len(accepted) = Len(plan)
       /\ \A i \in 1..Len(plan) :
             \A j \in plan[i][1]..plan[i][2] :
                result.val[j + 1] = accepted[i][j - plan[i][1] + 1]
       /\ result.val = Concat(accepted)

\* A three-chunk download whose bodies differ from the zeroed buffer and from
\* each other.
C4_Witness ==
    /\ DownloadOk
    /\ Len(accepted) >= 3
    /\ accepted[1] = <<0, 1>>
    /\ accepted[2] = <<1, 0>>
    /\ accepted[3] = <<1>>

\* C5: chunk copies never overlap and never pass the end of the buffer: at
\* every point each buffer index has been written by at most one copy, the
\* written indices are exactly those below the cursor (copies happen in range
\* order), a body about to be copied fits in the buffer, and when the buffer
\* is returned every index has been written exactly once.
C5_CopiesDisjointInBounds ==
    /\ pc # "panicked"
    /\ \A i \in DOMAIN writes :
          /\ writes[i] <= 1
          /\ writes[i] = 1 <=> i < current_pos
    /\ (ChunkReturned /\ chunk_result.tag = "Ok") =>
          chunk_start + Len(chunk_result.val) <= Len(full_data)
    /\ (DownloadOk /\ total_size > 0) =>
          \A i \in 0..(total_size - 1) : writes[i] = 1

\* The last, clipped chunk of a three-chunk download is about to be copied.
C5_Witness ==
    /\ ChunkReturned
    /\ chunk_result.tag = "Ok"
    /\ chunk_start = 2 * CHUNK_SIZE
    /\ chunk_start + Len(chunk_result.val) = Len(full_data)
    /\ writes[chunk_start - 1] = 1

\* The response just matched is a 200 or 206 whose body has the length of
\* the range being fetched.
ResponseFits ==
    /\ last_response.tag = "Ok"
    /\ last_response.status_code \in {200, 206}
    /\ last_response.body_len = chunk_end - chunk_start + 1

\* C6: the download of 0 bytes returns Ok with an empty buffer, and it never
\* plans a range, opens a connection, calls send_request or writes a request.
C6_EmptyDownloadNoRequest ==
    total_size = 0 =>
       /\ pc \notin {"connect", "write", "read", "match", "sleep", "copy", "panicked"}
       /\ open_conns = 0
       /\ calls = 0
       /\ request = <<>>
       /\ requested = {}
       /\ plan = <<>>
       /\ pc \in {"returned", "exit"} => result = Ok(<<>>)

\* The download of 0 bytes has returned.
C6_Witness ==
    /\ total_size = 0
    /\ pc = "returned"
    /\ result.tag = "Ok"

\* C7: chunks are fetched and written in ascending order: every range that
\* has been requested starts at or below the cursor, every buffer index below
\* the start of a requested range has already been copied, and while a range
\* is being attempted (first try or retry) it is the range at the cursor, so
\* no higher range has been requested yet.
C7_AscendingOrder ==
    /\ \A r \in requested :
          /\ r[1] <= current_pos
          /\ \A i \in DOMAIN writes : i < r[1] => writes[i] = 1
    /\ pc \in {"connect", "write", "read", "match", "sleep"} =>
          /\ chunk_start = current_pos
          /\ \A r \in requested : r[1] <= chunk_start

\* The second range is being retried: its request is out again, the first
\* range is in the buffer.
C7_Witness ==
    /\ pc = "read"
    /\ chunk_start = CHUNK_SIZE
    /\ calls > 1
    /\ Cardinality(requested) = 2

\* C8: an attempt is accepted if and only if its response has status 200 or
\* 206 and a body of the expected length: a rejected attempt (one followed by
\* the retry sleep) never had such a response, whatever its status, and a
\* returned body comes from such a response.
C8_AcceptedIff200Or206AndLength ==
    /\ pc = "sleep" => ~ResponseFits
    /\ (ChunkReturned /\ chunk_result.tag = "Ok") =>
          /\ ResponseFits
          /\ Len(chunk_result.val) = last_response.body_len

\* A response with another status was rejected although its body had the
\* expected length.
C8_Witness ==
    /\ pc = "sleep"
    /\ last_response.tag = "Ok"
    /\ last_response.status_code = 404
    /\ last_response.body_len = chunk_end - chunk_start + 1

\* C9 as claimed: every attempt opens its own connection and sends exactly
\* one request on it, so that as many connections are opened as attempts are
\* made.
C9_EveryAttemptOpensAConnection ==
    (pc = "sleep" \/ (ChunkReturned /\ chunk_result.tag = "Ok"))
       => (conns_opened = 1 /\ conn_requests = 1)

\* C9, amended: every attempt opens at most one connection (none when the
\* connect fails) and writes at most one request on it (none when setting the
\* timeouts or the write fails), exactly one of each when the attempt gets as
\* far as reading a response; at most one connection is open at any time,
\* only inside send_request, and it is closed before the next attempt begins.
C9_AtMostOneConnectionPerAttempt ==
    /\ open_conns <= 1
    /\ conns_opened <= 1
    /\ conn_requests <= conns_opened
    /\ open_conns = 1 <=> pc \in {"write", "read"}
    /\ pc = "read" => (conns_opened = 1 /\ conn_requests = 1)

\* A retry has its own connection open and has written its request.
C9_Witness ==
    /\ pc = "read"
    /\ calls > 1
    /\ open_conns = 1
    /\ conn_requests = 1

\* The Range header lines of a request.
RangeLines(req) == SelectSeq(req, LAMBDA l : l[1] = "Range")

\* C10: every request sent for a planned inclusive range (start, end) carries
\* exactly one Range header, bytes=<start>-<end + 1>; the fallback form
\* bytes=<start>-<start> is never sent; and when the download succeeds the
\* half-open intervals requested tile [0, total_size).
C10_RangeHeaderEndPlusOne ==
    /\ pc = "read" =>
          RangeLines(request) = << <<"Range", "bytes", chunk_start, chunk_end + 1>> >>
    /\ \A r \in requested :
          /\ r[2] > r[1]
          /\ \E i \in 1..Len(plan) : r = <<plan[i][1], plan[i][2] + 1>>
    /\ DownloadOk =>
          /\ \A i \in 1..Len(plan) : <<plan[i][1], plan[i][2] + 1>> \in requested
          /\ \A b \in 0..(total_size - 1) :
                Cardinality({r \in requested : r[1] <= b /\ b < r[2]}) = 1
          /\ \A r \in requested : r[2] <= total_size

\* A successful download that requested three ranges, the last of one byte.
C10_Witness ==
    /\ DownloadOk
    /\ Cardinality(requested) = 3
    /\ <<total_size - 1, total_size>> \in requested

\* The first range of a download of total_size bytes, as the half-open pair
\* its Range header carries.
FirstRequested == <<0, ChunkEnd(0, total_size) + 1>>

\* download_full_data has returned the error of a fetch that used up its
\* attempts.
FetchFailed ==
    /\ pc \in {"returned", "exit"}
    /\ result.tag = "Err"
    /\ result.err = "Network"

\* What C16 says of the states after the failed fetch.
C16_AfterFailedFetch ==
    FetchFailed =>
       /\ Len(plan) >= 1
       /\ result = ExhaustedError(plan[Len(plan)][1], plan[Len(plan)][2])
       /\ result.val = <<>>
       /\ pc = "returned" => calls = MAX_RETRIES
       /\ Len(accepted) = Len(plan) - 1
       /\ \A r \in requested : r[1] <= plan[Len(plan)][1]
       /\ accepted = <<>> => (Len(plan) = 1 /\ requested \subseteq {FirstRequested})
       /\ pc = "exit" => exit_status = result

\* What C16 says of the step that looks at the failed fetch.
C16_Propagates ==
    (pc = "copy" /\ chunk_result.tag = "Err") =>
       /\ pc' = "returned"
       /\ result' = chunk_result
       /\ UNCHANGED <<full_data, current_pos, plan, requested, calls>>

\* C16: when the fetch of a range uses up its attempts, download_full_data
\* returns that fetch's Network error unchanged, with no buffer, and requests
\* no later range (main exits with the same error); when no response was ever
\* accepted, every attempt of the download was for the first range.
C16_FailedChunkAbortsDownload ==
    []C16_AfterFailedFetch /\ [][C16_Propagates]_vars

\* Every response to the first range of a download of more than one byte was
\* truncated, and the download has returned the error.
C16_Witness ==
    /\ FetchFailed
    /\ pc = "returned"
    /\ total_size > 1
    /\ warnings = MAX_RETRIES
    /\ wrong_len = MAX_RETRIES
    /\ Len(plan) = 1
    /\ requested = {FirstRequested}

\* c is an uppercase letter.
IsUpperChar(c) == \E i \in DOMAIN UpperChars : UpperChars[i] = c

\* The texts a and b differ at most in the case of their letters.
EqIgnoreCase(a, b) ==
    /\ Len(a) = Len(b)
    /\ \A i \in 1..Len(a) :
          \/ a[i] = b[i]
          \/ \E k \in DOMAIN UpperChars : {a[i], b[i]} = {UpperChars[k], LowerChars[k]}

\* main has exited with HashMismatch.
ExitHashMismatch ==
    /\ pc = "exit"
    /\ exit_status.tag = "Err"
    /\ exit_status.err = "HashMismatch"

\* The downloaded data has the requested size and an expected digest was
\* given.
SizeRightDigestGiven ==
    /\ pc = "exit"
    /\ result.tag = "Ok"
    /\ Len(result.val) = total_size
    /\ expected_arg # None

\* C17 as claimed: when the size is right and the computed digest differs
\* from the expected one, main returns HashMismatch whose expected field is
\* the caller's value exactly as passed on the command line and whose actual
\* field is the computed digest.
C17_ExpectedVerbatim ==
    /\ ExitHashMismatch =>
          /\ exit_status.expected = expected_arg[1]
          /\ exit_status.actual = calculate_sha256(result.val)
    /\ (SizeRightDigestGiven /\ expected_arg[1] # calculate_sha256(result.val)
          /\ ~EqIgnoreCase(expected_arg[1], calculate_sha256(result.val)))
          => ExitHashMismatch

\* C17, amended: when the size is right and the computed digest differs from
\* the expected one by more than the case of letters, main returns
\* HashMismatch whose expected field is the caller's value with its uppercase
\* letters turned to lowercase (the value itself when it has none) and whose
\* actual field is the computed digest verbatim.
C17_ExpectedLowercased ==
    /\ ExitHashMismatch =>
          /\ SizeRightDigestGiven
          /\ EqIgnoreCase(exit_status.expected, expected_arg[1])
          /\ \A i \in 1..Len(exit_status.expected) :
                ~IsUpperChar(exit_status.expected[i])
          /\ exit_status.actual = calculate_sha256(result.val)
          /\ exit_status.actual # exit_status.expected
    /\ (SizeRightDigestGiven
          /\ ~EqIgnoreCase(expected_arg[1], calculate_sha256(result.val)))
          => ExitHashMismatch

\* A digest given in uppercase did not match: the error carries it in
\* lowercase.
C17_Witness ==
    /\ ExitHashMismatch
    /\ total_size > 1
    /\ expected_arg[1] = to_uppercase(calculate_sha256([i \in 1..total_size |-> 0]))
    /\ exit_status.expected # expected_arg[1]

\* C18: main returns success only when the downloaded size equals total_size
\* and, an expected digest being given, the computed digest equals it up to
\* the case of the letters of the given value; a given digest that differs
\* otherwise yields HashMismatch; with no expected digest the size check
\* alone decides.
C18_SuccessIffSizeAndDigest ==
    pc = "exit" =>
       /\ exit_status.tag = "Ok" <=>
             /\ result.tag = "Ok"
             /\ Len(result.val) = total_size
             /\ \/ expected_arg = None
                \/ EqIgnoreCase(expected_arg[1], calculate_sha256(result.val))
       /\ (SizeRightDigestGiven
             /\ ~EqIgnoreCase(expected_arg[1], calculate_sha256(result.val)))
             => ExitHashMismatch
       /\ (result.tag = "Ok" /\ Len(result.val) # total_size)
             => (exit_status.tag = "Err" /\ exit_status.err = "Logic")

\* The digest was given in uppercase and main accepted the data.
C18_Witness ==
    /\ pc = "exit"
    /\ exit_status.tag = "Ok"
    /\ total_size > 1
    /\ expected_arg # None
    /\ expected_arg[1] # calculate_sha256(result.val)
    /\ expected_arg[1] = to_uppercase(calculate_sha256(result.val))

\* The number of chunks of a download: total_size / CHUNK_SIZE, rounded up.
NumChunks == (total_size + CHUNK_SIZE - 1) \div CHUNK_SIZE

\* The bounds C20 gives: the cursor stays within the buffer, a chunk takes at
\* most MAX_RETRIES attempts, and no more chunks are planned than the size
\* needs.
C20_Bounded ==
    /\ current_pos <= total_size
    /\ attempt <= MAX_RETRIES
    /\ calls <= MAX_RETRIES
    /\ Len(plan) <= NumChunks

\* The steps C20 speaks of: copying a fetched chunk moves the cursor forward,
\* nothing else moves it; the attempts of a chunk are counted one by one, and
\* the count starts again only when the next chunk is planned or the
\* download has returned.
C20_Progress ==
    /\ (pc = "copy" /\ chunk_result.tag = "Ok") => current_pos' > current_pos
    /\ ~(pc = "copy" /\ chunk_result.tag = "Ok") => current_pos' = current_pos
    /\ \/ calls' = calls
       \/ calls' = calls + 1 /\ pc = "connect"
       \/ calls' = 0 /\ Len(plan') = Len(plan) + 1
       \/ calls' = 0 /\ pc = "returned"

\* The steps one level of the rank is made of: a chunk's attempts, at most
\* five steps each, and the step around them.
StepsPerChunk == 5 * MAX_RETRIES + 1

\* A bound on the number of steps the program can still take: the steps left
\* in the current attempt, in the attempts left for the current chunk, for
\* the bytes not yet fetched, and after the return.
Rank ==
    LET base == 3 + (total_size - current_pos) * (StepsPerChunk + 1)
        left == 5 * (MAX_RETRIES - attempt)
    IN  CASE pc = "start"    -> base + StepsPerChunk + 1
          [] pc = "loop"     -> base + StepsPerChunk
          [] pc = "connect"  -> base + left + 4
          [] pc = "write"    -> base + left + 3
          [] pc = "read"     -> base + left + 2
          [] pc = "sleep"    -> base + left + 1
          [] pc = "copy"     -> base
          [] pc = "returned" -> 2
          [] pc = "hash"     -> 1
          [] OTHER           -> 0

\* The program is never stuck before main exits, and what is left to do is
\* bounded.
C20_NotStuck ==
    /\ Rank \in Nat
    /\ pc # "exit" => ENABLED Next

\* C20: when every attempt completes, download_full_data terminates: the
\* cursor strictly increases with every completed chunk and never exceeds
\* total_size, every chunk takes at most MAX_RETRIES attempts, attempts are
\* made for at most ceil(total_size / CHUNK_SIZE) chunks (hence at most
\* MAX_RETRIES times that many attempts in all), and every step brings the
\* return nearer: a natural number bounding the steps left decreases with
\* each step, and a step is possible until main has exited.
C20_Terminates ==
    /\ [](C20_Bounded /\ C20_NotStuck)
    /\ [][C20_Progress /\ Rank' < Rank]_vars

\* A download of three chunks has returned, its last chunk fetched at the
\* last attempt allowed.
C20_Witness ==
    /\ pc = "returned"
    /\ result.tag = "Ok"
    /\ Len(plan) = NumChunks
    /\ Len(plan) >= 3
    /\ calls = MAX_RETRIES
    /\ current_pos = total_size

----------------------------------------------------------------------------
\* Properties of parse_http_response, stated on what the server wrote.

\* The least element of a non-empty set of numbers.
Least(S) == CHOOSE i \in S : \A j \in S : i <= j

\* parse_http_response has returned.
Parsed == ppc = "done"

\* The status line reaches the reader: it is followed by its line end, or
\* the stream ends in EOF after it.
StatusArrives == wire.cut \in {"headers", "all"} \/ wire.end = "eof"

\* The positions of the spaces of a line (the lines of the model have no
\* space at either end).
Spaces(l) == {i \in 1..Len(l) : l[i] = " "}

\* The second space-separated token of a line that has one.
SecondToken(l) ==
    LET a     == Least(Spaces(l))
        later == {i \in Spaces(l) : i > a}
    IN  SubSeq(l, a + 1, IF later = {} THEN Len(l) ELSE Least(later) - 1)

\* The text is the decimal form of an unsigned 16-bit integer.
IsU16Text(t) ==
    /\ t # <<>>
    /\ \A i \in 1..Len(t) : IsDigit(t[i])
    /\ DecimalValue(t) <= U16_MAX

\* The status line has a second token and it is a status code.
GoodStatus ==
    /\ StatusArrives
    /\ Spaces(wire.status) # {}
    /\ IsU16Text(SecondToken(wire.status))

CodeOnWire == DecimalValue(SecondToken(wire.status))

\* The positions at which ": " occurs in a line.
Separators(l) == {i \in 1..(Len(l) - 1) : l[i] = ":" /\ l[i + 1] = " "}

\* The header lines reach the reader, each with its line end.
HeadersArrive == wire.cut \in {"headers", "all"}

\* The header lines that lack ": ".
BadHeaderLines ==
    {i \in 1..Len(wire.header_lines) : Separators(wire.header_lines[i]) = {}}

\* C11: parse_http_response fails with Parse when the status line has fewer
\* than two space-separated tokens (the empty stream included), when its
\* second token is not an unsigned 16-bit integer, and when a non-blank
\* header line has no ": "; in none of these cases is a response produced.
C11_MalformedHeadIsParseError ==
    Parsed =>
       /\ (StatusArrives /\ Spaces(wire.status) = {})
             => parsed = ParseError("Parse", "Malformed status line")
       /\ (StatusArrives /\ Spaces(wire.status) # {}
             /\ ~IsU16Text(SecondToken(wire.status)))
             => parsed = ParseError("Parse", "Invalid status code")
       /\ (GoodStatus /\ HeadersArrive /\ BadHeaderLines # {})
             => /\ parsed = ParseError("Parse", "Malformed header line")
                /\ Len(headers) = Least(BadHeaderLines) - 1
       /\ (parsed.tag = "Err" /\ parsed.err = "Parse")
             => /\ parsed.val = NoHttpResponse
                /\ ~GoodStatus \/ BadHeaderLines # {}

\* A header line without ": " came after a good status line and a good
\* header line.
C11_Witness ==
    /\ Parsed
    /\ parsed = ParseError("Parse", "Malformed header line")
    /\ status_code = 200
    /\ Len(headers) = 1
    /\ wire.header_lines[2] = <<"X", ":", "y">>

\* The name and the value a header line with ": " puts on the wire: the text
\* before the first ": ", and the text after it without the spaces around.
NameOnWire(l) == SubSeq(l, 1, Least(Separators(l)) - 1)

ValueOnWire(l) == trim(SubSeq(l, Least(Separators(l)) + 2, Len(l)))

\* The header lines named Content-Length, in any letter case.
ContentLengthLines ==
    {i \in 1..Len(wire.header_lines) :
        /\ Separators(wire.header_lines[i]) # {}
        /\ EqIgnoreCase(NameOnWire(wire.header_lines[i]), CONTENT_LENGTH)}

\* The text is the decimal form of a length.
IsLengthText(t) == t # <<>> /\ \A i \in 1..Len(t) : IsDigit(t[i])

\* A good status line and header lines that all have ": ".
GoodHead == GoodStatus /\ HeadersArrive /\ BadHeaderLines = {}

\* The response declares its length once, as a number.
DeclaresLength ==
    /\ GoodHead
    /\ Cardinality(ContentLengthLines) = 1
    /\ IsLengthText(ValueOnWire(wire.header_lines[Least(ContentLengthLines)]))

DeclaredLength ==
    DecimalValue(ValueOnWire(wire.header_lines[Least(ContentLengthLines)]))

\* C12: when Content-Length declares n and the stream ends after fewer than
\* n body bytes, parse_http_response fails with Network, never with Io and
\* never with a response holding a partial body; when the body read fails
\* for another reason than the end of the stream, it fails with Io.
C12_ShortBodyIsNetworkError ==
    (Parsed /\ DeclaresLength /\ Len(wire.body) < DeclaredLength) =>
       /\ parsed.tag = "Err"
       /\ wire.end = "eof"
             => parsed = ParseError("Network", "Server connection closed prematurely")
       /\ wire.end # "eof" => parsed = ParseError("Io", "read failed")

\* Two bytes were declared, the stream ended after the first.
C12_Witness ==
    /\ Parsed
    /\ DeclaresLength
    /\ DeclaredLength = 2
    /\ wire.cut = "all"
    /\ Len(wire.body) = 1
    /\ wire.end = "eof"
    /\ parsed.err = "Network"

\* C13: a well-formed response without a content-length header gives a
\* response with an empty body when its status is 204, 304 or 100..199, and
\* fails with Http for every other status.
C13_NoContentLength ==
    (Parsed /\ GoodHead /\ wire.cut = "all" /\ ContentLengthLines = {}) =>
       parsed = IF CodeOnWire \in {204, 304} \cup 100..199
                THEN Ok(HttpResponse(CodeOnWire, <<>>))
                ELSE ParseError("Http", "Missing Content-Length header")

\* A 199 response with another header and bytes after the blank line was
\* parsed into a response without body.
C13_Witness ==
    /\ Parsed
    /\ GoodHead
    /\ wire.cut = "all"
    /\ ContentLengthLines = {}
    /\ Len(wire.header_lines) = 1
    /\ wire.body # <<>>
    /\ parsed = Ok(HttpResponse(199, <<>>))

\* The response has one content-length header and its value is no number.
UnparsableLength ==
    /\ GoodHead
    /\ wire.cut = "all"
    /\ Cardinality(ContentLengthLines) = 1
    /\ ~IsLengthText(ValueOnWire(wire.header_lines[Least(ContentLengthLines)]))

\* C14 as claimed: when a content-length header is present and its value does
\* not parse as an unsigned integer, parse_http_response fails with Parse,
\* whatever the status; the header is never treated as absent.
C14_UnparsableLengthIsParseError ==
    (Parsed /\ UnparsableLength) => (parsed.tag = "Err" /\ parsed.err = "Parse")

\* What the code does instead: the unparsable header counts as absent.
C14_UnparsableLengthCountsAsAbsent ==
    (Parsed /\ UnparsableLength) =>
       parsed = IF BodylessStatus(CodeOnWire)
                THEN Ok(HttpResponse(CodeOnWire, <<>>))
                ELSE ParseError("Http", "Missing Content-Length header")

\* C15: from a stream made of a status line, headers with Content-Length: n
\* in any letter case, a blank line and at least n body bytes,
\* parse_http_response returns the status code of the status line and a body
\* of exactly the first n bytes after the blank line.
C15_RoundTrip ==
    (Parsed /\ DeclaresLength /\ wire.cut = "all" /\ Len(wire.body) >= DeclaredLength)
       => /\ parsed = Ok(HttpResponse(CodeOnWire, SubSeq(wire.body, 1, DeclaredLength)))
          /\ consumed = Len(stream.data) - (Len(wire.body) - DeclaredLength)

\* CONTENT-LENGTH in capitals declared two bytes after another header; two
\* bytes came, after lines ended by a bare line feed.
C15_Witness ==
    /\ Parsed
    /\ wire.cut = "all"
    /\ wire.eol = LF
    /\ Len(wire.header_lines) = 2
    /\ ContentLengthLines = {2}
    /\ NameOnWire(wire.header_lines[2]) = to_uppercase(CONTENT_LENGTH)
    /\ parsed = Ok(HttpResponse(404, <<"p", "q">>))

C21_SleepCounts ==
    /\ pc = "connect" => (sleeps = calls /\ sleeps = attempt - 1)
    /\ pc \in {"write", "read", "sleep"} => (calls = attempt /\ sleeps = calls - 1)
    /\ (ChunkReturned /\ chunk_result.tag = "Ok") => sleeps = calls - 1
    /\ (ChunkReturned /\ chunk_result.tag = "Err") =>
          (calls = MAX_RETRIES /\ sleeps = MAX_RETRIES)

\* What C21 says of every step: a sleep is taken only after a failed attempt,
\* one at a time; the step that accepts a response takes none; and the
\* Network error is built by the step that takes the last sleep.
C21_SleepSteps ==
    /\ \/ sleeps' = sleeps
       \/ sleeps' = sleeps + 1 /\ pc = "sleep"
       \/ sleeps' = 0 /\ pc \in {"loop", "returned"}
    /\ pc = "sleep" => sleeps' = sleeps + 1
    /\ (pc # "copy" /\ pc' = "copy" /\ chunk_result'.tag = "Ok") => sleeps' = sleeps
    /\ (pc # "copy" /\ pc' = "copy" /\ chunk_result'.tag = "Err") =>
          (pc = "sleep" /\ attempt = MAX_RETRIES /\ sleeps' = MAX_RETRIES)

\* C21: in download_chunk exactly one RETRY_DELAY sleep follows every failed
\* attempt, the last one included, and none follows a successful attempt: a
\* fetch that succeeds on attempt k + 1 has slept k times, a fetch that uses
\* up its attempts has slept MAX_RETRIES times, the last sleep coming after
\* the last attempt and before the Network error is returned.
C21_SleepAfterEveryFailure ==
    []C21_SleepCounts /\ [][C21_SleepSteps]_vars

\* A fetch has failed: the last attempt was made, then the last sleep taken.
C21_Witness ==
    /\ ChunkReturned
    /\ chunk_result.tag = "Err"
    /\ calls = MAX_RETRIES
    /\ sleeps = MAX_RETRIES
    /\ chunk_start = CHUNK_SIZE

====
